---- MODULE Spec2Model ----
(***************************************************************************)
(* Content generator (Koptelev/news): the prompt template store            *)
(* (src/config/prompt_loader.py), the per-format generators                *)
(* (src/generators), and the multi-format batch loops of the HTTP API      *)
(* (src/main.py) and of the CLI (src/cli.py).                              *)
(***************************************************************************)
EXTENDS Integers, Sequences, FiniteSets, TLC

VARIABLES
    file,       \* the backing YAML file of the template store (config_path)
    cache,      \* PromptLoader._prompts of the current loader instance
    last,       \* the last store call: what was asked, what it returned
    entry,      \* which front end runs the batch: "http" or "cli"
    formats,    \* the requested format names, in the caller's order
    idx,        \* number of loop iterations completed
    results,    \* the batch's results dict (insertion-ordered)
    errors,     \* the batch's errors dict (insertion-ordered)
    outcomes,   \* one record per completed loop iteration
    pc,         \* position of the batch handler
    settings,   \* AISettings, as read from the environment
    status,     \* HTTP status code or CLI exit code of the finished batch
    saved,      \* the output bundle handed to save_output
    kwargs,     \* the extra substitutions passed to generate()
    options,    \* the CLI's --pretty and --output options
    response,   \* the body POST /generate answers with (an ordered dict)
    stdout,     \* what the CLI has echoed of the generated content
    writers,    \* the save_prompt calls in progress, one record per caller
    persisted,  \* the callers whose write reached the file, in order
    generator,  \* the generator instance the last invocation used
    stored,     \* per format name, the pair of the last put that completed
    expected,   \* what stored held for the invoked name when the invocation began
    replied,    \* what the backend did with the last request made of it
    raw,        \* a raw backend text handed to TelegramGenerator.post_process
    out,        \* what post_process returned for it
    ppc         \* position of the post-processing run

storeVars == <<file, cache, last>>
batchVars == <<entry, formats, idx, results, errors, outcomes, pc, settings, status, saved,
              kwargs, options, response, stdout, replied>>
postVars == <<raw, out, ppc>>
concVars == <<writers, persisted>>
freshVars == <<generator, stored, expected>>
vars == <<file, cache, last, entry, formats, idx, results, errors, outcomes, pc,
          settings, status, saved, kwargs, options, response, stdout, replied,
          raw, out, ppc, writers, persisted, generator, stored, expected>>

(***************************************************************************)
(* Python values.  Every value is a record of the same shape so that any   *)
(* two can be compared.                                                    *)
(***************************************************************************)
PyNone == [tag |-> "None", items |-> <<>>]
PyDict(items) == [tag |-> "dict", items |-> items]
PyList(items) == [tag |-> "list", items |-> items]

\* A scalar held in memory: a str, or what a YAML plain scalar resolves to.
PyStr(s) == [tag |-> "str", v |-> s]

(***************************************************************************)
(* Insertion-ordered dict (Python 3.7+ dict): a sequence of [key, val].    *)
(***************************************************************************)
DictHas(d, k) == \E i \in 1..Len(d) : d[i].key = k

DictIndex(d, k) == CHOOSE i \in 1..Len(d) : d[i].key = k

DictGet(d, k) == d[DictIndex(d, k)].val

DictKeys(d) == [i \in 1..Len(d) |-> d[i].key]

DictKeySet(d) == {d[i].key : i \in 1..Len(d)}

\* d[k] = v on a key already present moves it to the end.
DictSetMovesToEnd(d, k, v) ==
    Append(SelectSeq(d, LAMBDA it : it.key # k), [key |-> k, val |-> v])

\* d[k] = v on a key already present keeps the first value (setdefault).
DictSetKeepsFirst(d, k, v) ==
    IF DictHas(d, k) THEN d ELSE Append(d, [key |-> k, val |-> v])

\* d[k] = v: a new key is appended, a present key keeps its position.
DictSet(d, k, v) ==
    IF DictHas(d, k)
    THEN [d EXCEPT ![DictIndex(d, k)] = [key |-> k, val |-> v]]
    ELSE Append(d, [key |-> k, val |-> v])

\* del d[k]
DictDel(d, k) == SelectSeq(d, LAMBDA it : it.key # k)

(***************************************************************************)
(* The format registry and the names and texts the model ranges over.     *)
(***************************************************************************)
\* GENERATORS.keys(), in registry order.
GENERATORS == <<"telegram", "email", "official_letter", "newsletter">>

BuiltinNames == {GENERATORS[i] : i \in 1..Len(GENERATORS)}

\* Format names created at run time through POST /api/formats.
CustomNames == {"promo"}

\* The names the template store is exercised with.
StoreNames == {"telegram", "email"} \cup CustomNames

\* The (system prompt, user prompt) pairs a caller may store.  "123" and
\* "null" are strings that a YAML plain scalar would not read back as strings.
Templates ==
    {<<"You are an editor", "Post: {input_text}">>,
     <<"123", "null">>}

(***************************************************************************)
(* YAML, as yaml.dump and yaml.safe_load treat the scalars of the mapping. *)
(***************************************************************************)
\* The tag the implicit resolver gives a plain (unquoted) scalar.
YamlResolve(text) ==
    CASE text \in {"123", "0", "42"} -> "int"
      [] text \in {"null", "~", ""} -> "null"
      [] text \in {"true", "false", "yes", "no"} -> "bool"
      [] OTHER -> "str"

\* A dump that writes every scalar plain.
DumpScalarAlwaysPlain(pv) == [style |-> "plain", text |-> pv.v]

\* yaml.dump of one scalar: a str is written plain only when the plain text
\* resolves back to a str, and quoted otherwise.
DumpScalar(pv) ==
    IF pv.tag = "str" /\ YamlResolve(pv.v) # "str"
    THEN [style |-> "quoted", text |-> pv.v]
    ELSE [style |-> "plain", text |-> pv.v]

\* yaml.safe_load of one scalar.
LoadScalar(sc) ==
    IF sc.style = "quoted"
    THEN PyStr(sc.text)
    ELSE [tag |-> YamlResolve(sc.text), v |-> sc.text]

\* yaml.dump(prompts, f, sort_keys=False): the whole mapping, in dict order.
YamlDump(d) ==
    [kind |-> "doc",
     entries |-> [i \in 1..Len(d.items) |->
                    [key |-> DumpScalar(d.items[i].key),
                     system |-> DumpScalar(d.items[i].val.system),
                     user |-> DumpScalar(d.items[i].val.user)]]]

\* yaml.safe_load(f) of a well-formed document.
YamlLoad(f) ==
    PyDict([i \in 1..Len(f.entries) |->
              [key |-> LoadScalar(f.entries[i].key),
               val |-> [system |-> LoadScalar(f.entries[i].system),
                        user |-> LoadScalar(f.entries[i].user)]]])

EmptyFile == [kind |-> "empty", entries |-> <<>>]
MalformedFile == [kind |-> "malformed", entries |-> <<>>]
MissingFile == [kind |-> "missing", entries |-> <<>>]

\* What open(config_path, "w") followed by a write that fails part-way can
\* leave behind: the file was truncated on open, and holds a strict prefix of
\* the new document (nothing, some whole entries, or a cut inside an entry).
TornFiles(doc) ==
    {EmptyFile, MalformedFile}
        \cup {[kind |-> "doc", entries |-> SubSeq(doc.entries, 1, k)] :
                k \in 1..(Len(doc.entries) - 1)}

\* The outcomes of persisting: the open fails, the write fails, or both work.
IoOutcomes == {"ok", "open_fail", "write_fail"}

\* The backing file after `with open(path, "w") as f: yaml.dump(prompts, f)`.
FilesAfterWrite(f, prompts, io) ==
    CASE io = "open_fail" -> {f}
      [] io = "write_fail" -> TornFiles(YamlDump(prompts))
      [] OTHER -> {YamlDump(prompts)}

(***************************************************************************)
(* PromptLoader                                                            *)
(***************************************************************************)
\* load() that never caches what it read.
LoadNeverCaches(c, f) ==
    CASE c # PyNone -> [exc |-> "", ret |-> c, cache |-> c, read |-> FALSE]
      [] f.kind = "missing" ->
            [exc |-> "FileNotFoundError", ret |-> PyNone, cache |-> PyNone, read |-> TRUE]
      [] f.kind = "malformed" ->
            [exc |-> "YAMLError", ret |-> PyNone, cache |-> PyNone, read |-> TRUE]
      [] f.kind = "empty" ->
            [exc |-> "", ret |-> PyNone, cache |-> PyNone, read |-> TRUE]
      [] OTHER ->
            [exc |-> "", ret |-> YamlLoad(f), cache |-> PyNone, read |-> TRUE]

\* load(): the cache when it is set, else the parsed file, which is cached.
\* An empty file parses to None, so the cache stays unset.
LoadCall(c, f) ==
    CASE c # PyNone -> [exc |-> "", ret |-> c, cache |-> c, read |-> FALSE]
      [] f.kind = "missing" ->
            [exc |-> "FileNotFoundError", ret |-> PyNone, cache |-> PyNone, read |-> TRUE]
      [] f.kind = "malformed" ->
            [exc |-> "YAMLError", ret |-> PyNone, cache |-> PyNone, read |-> TRUE]
      [] f.kind = "empty" ->
            [exc |-> "", ret |-> PyNone, cache |-> PyNone, read |-> TRUE]
      [] OTHER ->
            [exc |-> "", ret |-> YamlLoad(f), cache |-> YamlLoad(f), read |-> TRUE]

\* The record of one store call.
Call(op, name, args, exc, ret, read, preFile, preCache) ==
    [op |-> op, name |-> name, args |-> args, exc |-> exc, ret |-> ret,
     read |-> read, preFile |-> preFile, preCache |-> preCache]

NoCall == Call("init", "", <<>>, "", PyNone, FALSE, MissingFile, PyNone)

\* A new PromptLoader(): every HTTP handler builds its own.
NewLoader ==
    /\ cache' = PyNone
    /\ last' = Call("new", "", <<>>, "", PyNone, FALSE, file, cache)
    /\ UNCHANGED file

\* loader.load()
Load ==
    LET r == LoadCall(cache, file) IN
    /\ cache' = r.cache
    /\ last' = Call("load", "", <<>>, r.exc, r.ret, r.read, file, cache)
    /\ UNCHANGED file

\* get_prompt(format_name): the outcome for a loader whose cache is c over
\* the file f.
GetPromptCall(c, f, name) ==
    LET r == LoadCall(c, f)
        exc == CASE r.exc # "" -> r.exc
                 [] r.ret = PyNone -> "TypeError"
                 [] ~DictHas(r.ret.items, PyStr(name)) -> "KeyError"
                 [] OTHER -> ""
    IN [exc |-> exc,
        ret |-> IF exc = ""
                THEN LET val == DictGet(r.ret.items, PyStr(name))
                     IN PyDict(<<val.system, val.user>>)
                ELSE PyNone,
        cache |-> r.cache, read |-> r.read]

\* list_formats()
ListFormatsCall(c, f) ==
    LET r == LoadCall(c, f)
        exc == CASE r.exc # "" -> r.exc
                 [] r.ret = PyNone -> "AttributeError"
                 [] OTHER -> ""
    IN [exc |-> exc,
        ret |-> IF exc = "" THEN PyList(DictKeys(r.ret.items)) ELSE PyNone,
        cache |-> r.cache, read |-> r.read]

\* save_prompt(format_name, system_prompt, user_prompt): load, set the entry,
\* drop the cache, then rewrite the whole file.  `files` are the contents the
\* file can hold afterwards.
SavePromptCall(c, f, name, sys, usr, io) ==
    LET r == LoadCall(c, f)
        early == CASE r.exc # "" -> r.exc
                   [] r.ret = PyNone -> "TypeError"
                   [] OTHER -> ""
    IN IF early # ""
       THEN [exc |-> early, cache |-> r.cache, files |-> {f}, read |-> r.read]
       ELSE [exc |-> IF io = "ok" THEN "" ELSE "OSError",
             cache |-> PyNone,
             files |-> FilesAfterWrite(f,
                          PyDict(DictSet(r.ret.items, PyStr(name),
                                   [system |-> PyStr(sys), user |-> PyStr(usr)])), io),
             read |-> r.read]

\* delete_prompt that rewrites the file without the lookup.
DeletePromptNoLookup(c, f, name, io) ==
    LET r == LoadCall(c, f)
        early == CASE r.exc # "" -> r.exc
                   [] r.ret = PyNone -> "TypeError"
                   [] OTHER -> ""
    IN IF early # ""
       THEN [exc |-> early, cache |-> r.cache, files |-> {f}, read |-> r.read]
       ELSE [exc |-> IF io = "ok" THEN "" ELSE "OSError",
             cache |-> PyNone,
             files |-> FilesAfterWrite(f, PyDict(DictDel(r.ret.items, PyStr(name))), io),
             read |-> r.read]

\* delete_prompt(format_name): load; a name that is present is removed, the
\* cache dropped and the whole file rewritten; an absent name raises KeyError.
DeletePromptCall(c, f, name, io) ==
    LET r == LoadCall(c, f)
        early == CASE r.exc # "" -> r.exc
                   [] r.ret = PyNone -> "TypeError"
                   [] ~DictHas(r.ret.items, PyStr(name)) -> "KeyError"
                   [] OTHER -> ""
    IN IF early # ""
       THEN [exc |-> early, cache |-> r.cache, files |-> {f}, read |-> r.read]
       ELSE [exc |-> IF io = "ok" THEN "" ELSE "OSError",
             cache |-> PyNone,
             files |-> FilesAfterWrite(f, PyDict(DictDel(r.ret.items, PyStr(name))), io),
             read |-> r.read]

\* A call that fails before it persists has one outcome, whatever `io` is.
ReachesWrite(exc, io) == exc \in {"", "OSError"} \/ io = "ok"

\* loader.get_prompt(format_name)
GetPrompt(name) ==
    LET r == GetPromptCall(cache, file, name) IN
    /\ cache' = r.cache
    /\ last' = Call("get", name, <<>>, r.exc, r.ret, r.read, file, cache)
    /\ UNCHANGED file

\* loader.list_formats()
ListFormats ==
    LET r == ListFormatsCall(cache, file) IN
    /\ cache' = r.cache
    /\ last' = Call("list", "", <<>>, r.exc, r.ret, r.read, file, cache)
    /\ UNCHANGED file

\* loader.save_prompt(format_name, system_prompt, user_prompt)
SavePrompt(name, sys, usr, io) ==
    LET r == SavePromptCall(cache, file, name, sys, usr, io) IN
    /\ ReachesWrite(r.exc, io)
    /\ cache' = r.cache
    /\ file' \in r.files
    /\ last' = Call("put", name, <<sys, usr>>, r.exc, PyNone, r.read, file, cache)

\* loader.delete_prompt(format_name)
DeletePrompt(name, io) ==
    LET r == DeletePromptCall(cache, file, name, io) IN
    /\ ReachesWrite(r.exc, io)
    /\ cache' = r.cache
    /\ file' \in r.files
    /\ last' = Call("delete", name, <<>>, r.exc, PyNone, r.read, file, cache)

\* The prompts.yaml the service starts with: the built-in formats' templates.
InitialDoc ==
    YamlDump(PyDict(<<
        [key |-> PyStr("telegram"),
         val |-> [system |-> PyStr("You are an editor"), user |-> PyStr("Post: {input_text}")]],
        [key |-> PyStr("email"),
         val |-> [system |-> PyStr("You are an editor"), user |-> PyStr("Post: {input_text}")]]
    >>))

(***************************************************************************)
(* Texts are sequences of one-character strings.                           *)
(***************************************************************************)
\* Characters str.strip() removes and the regex class \s matches.
Whitespace == {" ", "\n", "\t"}

\* The sentence terminators of the regex [.!?]
Terminators == {".", "!", "?"}

Repeat(c, n) == [i \in 1..n |-> c]

IsPrefix(p, t) == Len(p) <= Len(t) /\ SubSeq(t, 1, Len(p)) = p

\* Index of the first character at or after i that is not whitespace
\* (Len(t) + 1 when there is none).
RECURSIVE SkipWhitespace(_, _)
SkipWhitespace(t, i) ==
    IF i > Len(t) \/ t[i] \notin Whitespace THEN i ELSE SkipWhitespace(t, i + 1)

\* Index of the last character at or before i that is not whitespace (0 when
\* there is none).
RECURSIVE SkipWhitespaceBack(_, _)
SkipWhitespaceBack(t, i) ==
    IF i < 1 \/ t[i] \notin Whitespace THEN i ELSE SkipWhitespaceBack(t, i - 1)

\* str.strip()
Strip(t) == SubSeq(t, SkipWhitespace(t, 1), SkipWhitespaceBack(t, Len(t)))

\* re.sub(r"\n{3,}", "\n\n", content) on t[lo..hi]: of every run of three or
\* more newlines the first two are kept.
RECURSIVE CollapseRange(_, _, _)
CollapseRange(t, lo, hi) ==
    IF lo > hi THEN <<>>
    ELSE IF lo = hi
    THEN IF t[lo] = "\n" /\ lo >= 3 /\ t[lo - 1] = "\n" /\ t[lo - 2] = "\n"
         THEN <<>>
         ELSE <<t[lo]>>
    ELSE LET mid == (lo + hi) \div 2
         IN CollapseRange(t, lo, mid) \o CollapseRange(t, mid + 1, hi)

CollapseNewlines(t) == CollapseRange(t, 1, Len(t))

\* Where the regex [.!?]\s+ matches: a terminator followed by whitespace.
\* Matches cannot overlap, a match being one terminator and then whitespace.
MatchStarts(t) ==
    {i \in 1..(Len(t) - 1) : t[i] \in Terminators /\ t[i + 1] \in Whitespace}

\* re.split(r"[.!?]\s+", content) from position pos on.
RECURSIVE SplitFrom(_, _)
SplitFrom(t, pos) ==
    LET later == {m \in MatchStarts(t) : m >= pos} IN
    IF later = {}
    THEN <<SubSeq(t, pos, Len(t))>>
    ELSE LET m == CHOOSE x \in later : \A y \in later : x <= y
         IN <<SubSeq(t, pos, m - 1)>> \o SplitFrom(t, SkipWhitespace(t, m + 1))

SplitSentences(t) == SplitFrom(t, 1)

\* Characters TelegramGenerator.post_process allows.
TelegramLimit == 300

\* The loop over the sentences: a sentence is appended, followed by ". ",
\* while the text so far plus the sentence has at most 300 characters.
RECURSIVE Reassemble(_, _, _)
Reassemble(sentences, i, result) ==
    IF i > Len(sentences) THEN result
    ELSE IF Len(result) + Len(sentences[i]) <= TelegramLimit
    THEN Reassemble(sentences, i + 1, result \o sentences[i] \o <<".", " ">>)
    ELSE result

\* A variant that runs the sentence loop on every text, whatever its length.
TelegramPostProcessAlwaysSplits(content) ==
    LET c == Strip(CollapseNewlines(content))
        r == Strip(Reassemble(SplitSentences(c), 1, <<>>))
    IN SubSeq(r, 1, IF Len(r) < TelegramLimit THEN Len(r) ELSE TelegramLimit)

\* TelegramGenerator.post_process
TelegramPostProcess(content) ==
    LET c == Strip(CollapseNewlines(content)) IN
    IF Len(c) > TelegramLimit
    THEN LET r == Strip(Reassemble(SplitSentences(c), 1, <<>>))
         IN SubSeq(r, 1, IF Len(r) < TelegramLimit THEN Len(r) ELSE TelegramLimit)
    ELSE c

\* EmailGenerator.post_process: every branch returns content.strip().
EmailPostProcess(content) == Strip(content)

\* OfficialLetterGenerator.post_process: missing markers are only logged.
OfficialLetterPostProcess(content) == Strip(content)

\* NewsletterGenerator.post_process
NewsletterPostProcess(content) == Strip(CollapseNewlines(content))

\* BaseGenerator.post_process
BasePostProcess(content) == Strip(content)

\* The post_process of the generator class registered for a format name.
PostProcessOf(name, content) ==
    CASE name = "telegram" -> TelegramPostProcess(content)
      [] name = "email" -> EmailPostProcess(content)
      [] name = "official_letter" -> OfficialLetterPostProcess(content)
      [] name = "newsletter" -> NewsletterPostProcess(content)
      [] OTHER -> BasePostProcess(content)

(***************************************************************************)
(* Backend selection (src/ai/provider.py)                                  *)
(***************************************************************************)
\* AISettings: the provider kind and the credentials; "" is an unset key.
Settings(kind, openaiKey, openrouterKey) ==
    [ai_provider |-> kind, openai_api_key |-> openaiKey,
     openrouter_api_key |-> openrouterKey]

\* settings.ai_provider.lower(), on the spellings the model uses.
Lower(kind) ==
    CASE kind = "OpenAI" -> "openai"
      [] kind = "OLLAMA" -> "ollama"
      [] OTHER -> kind

\* A factory whose constructors take any key, leaving the backend to refuse it.
GetAiProviderNoKeyCheck(st) ==
    IF Lower(st.ai_provider) \in {"openai", "openrouter", "ollama"}
    THEN [exc |-> "", kind |-> Lower(st.ai_provider)]
    ELSE [exc |-> "ValueError", kind |-> ""]

\* get_ai_provider(settings): the provider class built, or the exception of
\* the factory or of the provider's constructor.  The constructors check the
\* key before they build a client, and none of them sends a request.
GetAiProvider(st) ==
    CASE Lower(st.ai_provider) = "openai" ->
            IF st.openai_api_key = ""
            THEN [exc |-> "ValueError", kind |-> ""]
            ELSE [exc |-> "", kind |-> "openai"]
      [] Lower(st.ai_provider) = "openrouter" ->
            IF st.openrouter_api_key = ""
            THEN [exc |-> "ValueError", kind |-> ""]
            ELSE [exc |-> "", kind |-> "openrouter"]
      [] Lower(st.ai_provider) = "ollama" -> [exc |-> "", kind |-> "ollama"]
      [] OTHER -> [exc |-> "ValueError", kind |-> ""]

\* What the backend does with one request: the request fails (transport
\* error or error status), or a body arrives, with or without the content
\* field the provider reads.
BackendTexts == {<<"O", "k", ".">>, <<" ", "N", "e", "w", "s", "!", "\n">>}

BackendFails == [ok |-> FALSE, field |-> FALSE, text |-> <<>>]

NoContentField == [ok |-> TRUE, field |-> FALSE, text |-> <<>>]

BackendReplies ==
    {BackendFails} \cup {[ok |-> TRUE, field |-> TRUE, text |-> t] : t \in BackendTexts}

BackendResponses == BackendReplies \cup {NoContentField}

\* OpenAIProvider.generate and OpenRouterProvider.generate: the content of
\* the first choice, stripped; a body without content has None there, and
\* None has no strip.
OpenAIGenerate(reply) ==
    CASE ~reply.ok -> [exc |-> "APIError", text |-> <<>>]
      [] ~reply.field -> [exc |-> "AttributeError", text |-> <<>>]
      [] OTHER -> [exc |-> "", text |-> Strip(reply.text)]

\* OllamaProvider.generate: result.get("response", "").strip().
OllamaGenerate(reply) ==
    CASE ~reply.ok -> [exc |-> "HTTPError", text |-> <<>>]
      [] ~reply.field -> [exc |-> "", text |-> Strip(<<>>)]
      [] OTHER -> [exc |-> "", text |-> Strip(reply.text)]

\* provider.generate(...) of the provider class of the given kind.
ProviderGenerate(kind, reply) ==
    IF kind = "ollama" THEN OllamaGenerate(reply) ELSE OpenAIGenerate(reply)

(***************************************************************************)
(* Generators (src/generators)                                             *)
(***************************************************************************)
\* get_temperature() in tenths, and get_max_tokens() (capped FALSE is None).
StrategyRecord(temperature, capped, max_tokens, post) ==
    [temperature |-> temperature, capped |-> capped, max_tokens |-> max_tokens,
     post |-> post]

\* BaseGenerator's own get_temperature, get_max_tokens and post_process.
DefaultStrategy == StrategyRecord(7, FALSE, 0, "strip")

NoStrategy == StrategyRecord(0, FALSE, 0, "")

\* The overrides of the generator class registered for a built-in name.
StrategyOf(name) ==
    CASE name = "telegram" -> StrategyRecord(8, TRUE, 200, "telegram")
      [] name = "email" -> StrategyRecord(7, TRUE, 300, "email")
      [] name = "official_letter" -> StrategyRecord(5, TRUE, 600, "official_letter")
      [] name = "newsletter" -> StrategyRecord(7, TRUE, 500, "newsletter")
      [] OTHER -> DefaultStrategy

\* get_generator(format_name): a name outside GENERATORS raises ValueError.
GetGenerator(name) ==
    IF name \notin BuiltinNames
    THEN [exc |-> "ValueError", strategy |-> NoStrategy]
    ELSE [exc |-> "", strategy |-> StrategyOf(name)]

\* The replacement fields str.format finds in a user prompt.
Placeholders(template) ==
    CASE template = "Post: {input_text}" -> {"input_text"}
      [] template = "{input_text} for {audience}" -> {"input_text", "audience"}
      [] OTHER -> {}

\* A substitution that leaves unknown fields in place, as safe_substitute does.
FormatUserPromptKeepsUnknown(user, kw) ==
    IF user.tag # "str" THEN "AttributeError" ELSE ""

\* prompt_config["user"].format(input_text=input_text, **kwargs): a value that
\* is no str has no format method, a field that is not supplied is a KeyError.
FormatUserPrompt(user, kw) ==
    CASE user.tag # "str" -> "AttributeError"
      [] ~(Placeholders(user.v) \subseteq ({"input_text"} \cup kw)) -> "KeyError"
      [] OTHER -> ""

\* A generated content, or None.
TextNone == [tag |-> "None", v |-> <<>>]
Text(t) == [tag |-> "str", v |-> t]

\* The record of one pass through the pipeline; calls counts the backend
\* generate calls it made, sent is the system/user pair they were built from.
Outcome(name, stage, exc, content, calls, strategy, sent) ==
    [name |-> name, stage |-> stage, exc |-> exc, content |-> content,
     called |-> calls > 0, calls |-> calls, strategy |-> strategy, sent |-> sent]

\* A generate() that asks the backend a second time when the first call fails.
BackendAttemptsWithRetry(result) == IF result.exc # "" THEN 2 ELSE 1

\* The number of self.ai_provider.generate calls in generate(): the call sits
\* in a try whose except logs and re-raises.
BackendAttempts(result) == 1

\* A generator object: its format name and its _prompt_config.
GeneratorInstance(name, config) == [format_name |-> name, prompt_config |-> config]

\* BaseGenerator.__init__ leaves _prompt_config unset.
NewGenerator(name) == GeneratorInstance(name, PyNone)

NoGenerator == GeneratorInstance("", PyNone)

\* The prompt_config property of generator g over the file f: the cached
\* config when set, else get_prompt on the generator's own, new loader.
PromptConfig(g, f) ==
    IF g.prompt_config # PyNone
    THEN [exc |-> "", ret |-> g.prompt_config]
    ELSE [exc |-> GetPromptCall(PyNone, f, g.format_name).exc,
          ret |-> GetPromptCall(PyNone, f, g.format_name).ret]

\* generator.generate(input_text, **kw) on the generator g that
\* get_generator(g.format_name) returned, with its provider built from st;
\* reply is what the backend does if it is asked.
GenerateWith(g, f, st, reply, kw) ==
    LET name == g.format_name
        gen == GetGenerator(name)
        provider == GetAiProvider(st)
        prompt == PromptConfig(g, f)
        result == ProviderGenerate(provider.kind, reply)
    IN
    CASE gen.exc # "" ->
            Outcome(name, "strategy", gen.exc, TextNone, 0, gen.strategy, PyNone)
      [] provider.exc # "" ->
            Outcome(name, "provider", provider.exc, TextNone, 0, gen.strategy, PyNone)
      [] prompt.exc # "" ->
            Outcome(name, "template", prompt.exc, TextNone, 0, gen.strategy, PyNone)
      [] FormatUserPrompt(prompt.ret.items[2], kw) # "" ->
            Outcome(name, "substitution", FormatUserPrompt(prompt.ret.items[2], kw),
                    TextNone, 0, gen.strategy, PyNone)
      [] result.exc # "" ->
            Outcome(name, "backend", result.exc, TextNone, BackendAttempts(result),
                    gen.strategy, prompt.ret)
      [] OTHER ->
            Outcome(name, "", "", Text(PostProcessOf(name, result.text)),
                    BackendAttempts(result), gen.strategy, prompt.ret)

\* get_generator(format_name) and generator.generate(input_text, **kw) over
\* the template file f: the generator is new, and so are its provider and its
\* loader.
GenerateCall(name, f, st, reply, kw) == GenerateWith(NewGenerator(name), f, st, reply, kw)

\* The batch loops call generator.generate(input_text) with no extras.
Pipeline(name, f, st, reply) == GenerateCall(name, f, st, reply, {})

(***************************************************************************)
(* The template store on its own: one loader at a time over the file.      *)
(***************************************************************************)
BatchIdle ==
    /\ entry = "http"
    /\ formats = <<>>
    /\ idx = 0
    /\ results = <<>>
    /\ errors = <<>>
    /\ outcomes = <<>>
    /\ pc = "idle"
    /\ settings = Settings("openai", "sk-key", "")
    /\ status = 0
    /\ saved = <<>>
    /\ kwargs = {}
    /\ options = [pretty |-> FALSE, output_file |-> FALSE]
    /\ response = <<>>
    /\ stdout = <<>>
    /\ replied = BackendFails

PostIdle ==
    /\ raw = <<>>
    /\ out = <<>>
    /\ ppc = "idle"

FreshIdle ==
    /\ generator = NoGenerator
    /\ stored = <<>>
    /\ expected = <<>>

ConcIdle ==
    /\ writers = <<>>
    /\ persisted = <<>>

StoreInit ==
    /\ file \in {InitialDoc, MissingFile}
    /\ cache = PyNone
    /\ last = NoCall
    /\ BatchIdle
    /\ PostIdle
    /\ ConcIdle
    /\ FreshIdle

StoreNext ==
    \/ NewLoader /\ UNCHANGED <<batchVars, postVars, concVars, freshVars>>
    \/ Load /\ UNCHANGED <<batchVars, postVars, concVars, freshVars>>
    \/ ListFormats /\ UNCHANGED <<batchVars, postVars, concVars, freshVars>>
    \/ \E name \in StoreNames :
         GetPrompt(name) /\ UNCHANGED <<batchVars, postVars, concVars, freshVars>>
    \/ \E name \in StoreNames, t \in Templates, io \in IoOutcomes :
         SavePrompt(name, t[1], t[2], io) /\ UNCHANGED <<batchVars, postVars, concVars, freshVars>>
    \/ \E name \in StoreNames, io \in IoOutcomes :
         DeletePrompt(name, io) /\ UNCHANGED <<batchVars, postVars, concVars, freshVars>>

SpecStore == StoreInit /\ [][StoreNext]_vars

(***************************************************************************)
(* The batch loops: POST /generate (src/main.py) and the CLI command       *)
(* (src/cli.py).                                                           *)
(***************************************************************************)
\* Longest list of requested format names.
MaxFormats == 3

\* The names a request may hold.
RequestNames == {"telegram", "email"} \cup CustomNames

RECURSIVE RequestLists(_)
RequestLists(n) ==
    IF n = 0 THEN {<<>>}
    ELSE LET shorter == RequestLists(n - 1)
         IN shorter \cup {Append(l, name) : l \in shorter, name \in RequestNames}

GoodTemplate == [system |-> PyStr("You are an editor"), user |-> PyStr("Post: {input_text}")]

\* A prompts.yaml with templates for telegram, email and the custom format.
DocWithCustom ==
    YamlDump(PyDict(<<[key |-> PyStr("telegram"), val |-> GoodTemplate],
                      [key |-> PyStr("email"), val |-> GoodTemplate],
                      [key |-> PyStr("promo"), val |-> GoodTemplate]>>))

\* A prompts.yaml whose email template names a field nobody supplies.
DocBadEmail ==
    YamlDump(PyDict(<<[key |-> PyStr("telegram"), val |-> GoodTemplate],
                      [key |-> PyStr("email"),
                       val |-> [system |-> PyStr("You are an editor"),
                                user |-> PyStr("{input_text} for {audience}")]]>>))

BatchFiles == {DocWithCustom, DocBadEmail}

BatchSettings == {Settings("openai", "sk-key", ""), Settings("openai", "", "")}

\* The exception classes the pipeline raises; all derive from Exception.
ExceptionClasses ==
    {"ValueError", "KeyError", "TypeError", "AttributeError", "FileNotFoundError",
     "YAMLError", "APIError", "HTTPError"}

\* An except clause that names ValueError only.
CatchesValueErrorOnly(exc) == exc = "ValueError"

\* `except Exception as e`
CaughtByExcept(exc) == exc \in ExceptionClasses

BatchInit ==
    /\ entry \in {"http", "cli"}
    /\ formats \in RequestLists(MaxFormats)
    /\ file \in BatchFiles
    /\ settings \in BatchSettings
    /\ idx = 0
    /\ results = <<>>
    /\ errors = <<>>
    /\ outcomes = <<>>
    /\ pc = "start"
    /\ status = 0
    /\ saved = <<>>
    /\ kwargs = {}
    /\ options \in IF entry = "cli"
                   THEN [pretty : BOOLEAN, output_file : BOOLEAN]
                   ELSE {[pretty |-> FALSE, output_file |-> FALSE]}
    /\ response = <<>>
    /\ stdout = <<>>
    /\ replied = BackendFails
    /\ cache = PyNone
    /\ last = NoCall
    /\ PostIdle
    /\ ConcIdle
    /\ FreshIdle

\* The handler up to its loop.  The CLI replaces an empty selection by all
\* registered formats and exits with 1 on a name that is not registered.
Begin ==
    /\ pc = "start"
    /\ IF entry = "cli"
       THEN LET formats_list == IF formats # <<>> THEN formats ELSE GENERATORS
                invalid_formats == SelectSeq(formats_list, LAMBDA f : f \notin BuiltinNames)
            IN /\ formats' = formats_list
               /\ IF invalid_formats # <<>>
                  THEN pc' = "done" /\ status' = 1
                  ELSE pc' = "loop" /\ UNCHANGED status
       ELSE pc' = "loop" /\ UNCHANGED <<formats, status>>
    /\ UNCHANGED <<entry, idx, results, errors, outcomes, settings, saved, kwargs,
                   options, response, stdout, replied>>

\* One click.echo of generated content: a pretty block for one format, or
\* the JSON of the whole bundle.
Echoed(kind, name, content, data) ==
    [kind |-> kind, name |-> name, content |-> content, data |-> data]

NoData == [results |-> <<>>, errors |-> <<>>]

\* One iteration of `for format_name in formats: try: ... except Exception`.
\* In the CLI's pretty mode the content is echoed inside the try.
Iterate ==
    /\ pc = "loop"
    /\ idx < Len(formats)
    /\ \E r \in BackendReplies :
         LET name == formats[idx + 1]
             o == Pipeline(name, file, settings, r)
         IN /\ o.called \/ r = BackendFails
            /\ replied' = IF o.called THEN r ELSE replied
            /\ outcomes' = Append(outcomes, o)
            /\ idx' = idx + 1
            /\ IF o.exc = ""
               THEN /\ results' = DictSet(results, name, o.content)
                    /\ stdout' = IF entry = "cli" /\ options.pretty
                                 THEN Append(stdout, Echoed("content", name, o.content,
                                                            NoData))
                                 ELSE stdout
                    /\ UNCHANGED <<errors, pc>>
               ELSE IF CaughtByExcept(o.exc)
               THEN /\ errors' = DictSet(errors, name, o.exc)
                    /\ results' = DictSet(results, name, TextNone)
                    /\ UNCHANGED <<pc, stdout>>
               ELSE /\ pc' = "escaped"
                    /\ UNCHANGED <<results, errors, stdout>>
    /\ UNCHANGED <<entry, formats, settings, status, saved, kwargs, options, response>>

\* output_data, as both handlers build it.
OutputData == [results |-> results, errors |-> errors]

\* GenerateResponse(...): the fields of the response model, in its order.
GenerateResponse(fmts, res, outputFile) ==
    <<[key |-> "input_text", val |-> "text"],
      [key |-> "formats", val |-> fmts],
      [key |-> "results", val |-> res],
      [key |-> "timestamp", val |-> "now"],
      [key |-> "output_file", val |-> outputFile]>>

\* The body of the HTTPException raised when nothing was generated.
ErrorResponse == <<[key |-> "detail", val |-> "nothing generated"]>>

\* A CLI that never prints the bundle.
EchoesJsonNever(opts) == FALSE

\* `if not pretty and not output_file:` the CLI prints the bundle as JSON.
EchoesJson(opts) == ~opts.pretty /\ ~opts.output_file

\* After the loop.  POST /generate answers 500 when no format produced
\* content, and otherwise saves the bundle (a failure to save is logged) and
\* answers 200 with a GenerateResponse.  The CLI saves the bundle (a failure
\* to save is reported), echoes it as JSON when neither --pretty nor --output
\* is given, and exits with 1 when any format failed.
Finish ==
    /\ pc = "loop"
    /\ idx = Len(formats)
    /\ pc' = "done"
    /\ IF entry = "http"
       THEN IF results = <<>> \/ \A i \in 1..Len(results) : results[i].val = TextNone
            THEN /\ status' = 500
                 /\ response' = ErrorResponse
                 /\ UNCHANGED <<saved, stdout>>
            ELSE /\ status' = 200
                 /\ \E written \in BOOLEAN :
                      /\ saved' = IF written THEN <<OutputData>> ELSE <<>>
                      /\ response' = GenerateResponse(formats, results,
                                        IF written THEN "outputs/output.json" ELSE "None")
                 /\ UNCHANGED stdout
       ELSE /\ status' = IF errors # <<>> THEN 1 ELSE 0
            /\ saved' \in {<<>>, <<OutputData>>}
            /\ stdout' = IF EchoesJson(options)
                         THEN Append(stdout, Echoed("json", "", TextNone, OutputData))
                         ELSE stdout
            /\ UNCHANGED response
    /\ UNCHANGED <<entry, formats, idx, results, errors, outcomes, settings, kwargs,
                   options, replied>>

BatchNext ==
    \/ Begin /\ UNCHANGED <<storeVars, postVars, concVars, freshVars>>
    \/ Iterate /\ UNCHANGED <<storeVars, postVars, concVars, freshVars>>
    \/ Finish /\ UNCHANGED <<storeVars, postVars, concVars, freshVars>>

SpecBatch == BatchInit /\ [][BatchNext]_vars

(***************************************************************************)
(* Batch claims, checked under SpecBatch.                                  *)
(***************************************************************************)
\* The loop has run over the whole list (the CLI did not exit on an
\* unregistered name before it).
LoopFinished == pc = "done" /\ idx = Len(formats)

Requested == {formats[i] : i \in 1..Len(formats)}

Occurrences(name) == {i \in 1..Len(formats) : formats[i] = name}

LastOccurrence(name) == CHOOSE i \in Occurrences(name) : \A j \in Occurrences(name) : j <= i

\* The names of a list in the order of their first occurrence.
FirstOccurrences(l) ==
    SelectSeq([i \in 1..Len(l) |-> IF \E j \in 1..(i - 1) : l[j] = l[i] THEN "" ELSE l[i]],
              LAMBDA x : x # "")

\* C1: when the pipeline fails for one format name, whatever the failure, the
\* error is recorded in errors under that name and the name's results entry is
\* None; no exception leaves the loop; every requested name is attempted, in
\* order, and has a results entry when the loop is over.
C1_FailureIsCapturedPerFormat ==
    /\ pc # "escaped"
    /\ Len(outcomes) = idx
    /\ \A i \in 1..Len(outcomes) : outcomes[i].name = formats[i]
    /\ (idx > 0 /\ outcomes[idx].exc # "")
          => /\ DictHas(errors, formats[idx])
             /\ DictGet(errors, formats[idx]) = outcomes[idx].exc
             /\ DictGet(results, formats[idx]) = TextNone
    /\ (pc = "done" /\ (entry = "http" \/ \A n \in Requested : n \in BuiltinNames))
          => /\ idx = Len(formats)
             /\ DictKeySet(results) = Requested

\* The first format failed at substitution, and the formats after it were
\* still run: the next produced content, the last failed at the backend.
C1_Witness ==
    /\ LoopFinished /\ Len(formats) = 3
    /\ outcomes[1].stage = "substitution"
    /\ outcomes[2].exc = "" /\ outcomes[2].name # outcomes[1].name
    /\ outcomes[3].stage = "backend"
    /\ DictKeySet(errors) = {formats[1], formats[3]}

\* C2 (as claimed): after the loop, results has one entry per distinct
\* requested name and the keys of errors are exactly the names whose results
\* entry is None.
C2_ErrorsAreExactlyAbsentResults ==
    LoopFinished =>
        /\ DictKeySet(results) = Requested
        /\ Len(results) = Cardinality(Requested)
        /\ DictKeySet(errors) = {n \in Requested : DictGet(results, n) = TextNone}

\* C3: the keys of results iterate in the caller's order of the requested
\* names (a repeated name stands where it first occurs), whichever formats
\* succeed or fail.
C3_ResultsKeepRequestOrder ==
    pc \in {"loop", "done"} =>
        /\ DictKeys(results) = FirstOccurrences(SubSeq(formats, 1, idx))
        /\ (LoopFinished /\ Cardinality(Requested) = Len(formats))
              => DictKeys(results) = formats

\* A name was requested first and last with another name between them; its
\* first run failed and its last run succeeded.
C3_Witness ==
    /\ LoopFinished /\ Len(formats) = 3
    /\ formats[1] = formats[3] /\ formats[1] # formats[2]
    /\ outcomes[1].exc # "" /\ outcomes[2].exc = "" /\ outcomes[3].exc = ""

\* C4: a name that occurs k times in the request is run through the pipeline
\* k times, and its results entry is the outcome of its last occurrence.
C4_LastOccurrenceWins ==
    LoopFinished =>
        \A name \in Requested :
            /\ Cardinality({i \in 1..Len(outcomes) : outcomes[i].name = name})
                   = Cardinality(Occurrences(name))
            /\ DictGet(results, name) = outcomes[LastOccurrence(name)].content

\* A name was requested twice and the backend returned two different texts.
C4_Witness ==
    /\ LoopFinished
    /\ \E i, j \in 1..Len(formats) :
          /\ i < j /\ formats[i] = formats[j] /\ j = LastOccurrence(formats[j])
          /\ outcomes[i].exc = "" /\ outcomes[j].exc = ""
          /\ outcomes[i].content # outcomes[j].content
          /\ DictGet(results, formats[j]) = outcomes[j].content

\* C9 (as claimed): a format name that is not built in but has a template in
\* the store is given the default strategy, and does not fail at strategy
\* resolution.
C9_CustomFormatUsesDefaultStrategy ==
    \A i \in 1..Len(outcomes) :
        (/\ outcomes[i].name \notin BuiltinNames
         /\ GetPromptCall(PyNone, file, outcomes[i].name).exc = "")
            => /\ outcomes[i].stage # "strategy"
               /\ outcomes[i].strategy = DefaultStrategy

(***************************************************************************)
(* Template store claims, checked under SpecStore.                         *)
(***************************************************************************)
\* The entries of a document without the entry of one format name.
EntriesWithout(entries, name) == SelectSeq(entries, LAMBDA e : e.key.text # name)

\* The names a document has entries for.
EntryNames(entries) == {entries[i].key.text : i \in 1..Len(entries)}

\* C5: a put that completes, followed immediately by a get of the same name
\* (by the same loader or by a new one), returns exactly the system/user pair
\* that was put, whether the name was new or present and whatever the store
\* held before.
C5_PutThenGetReturnsPair ==
    (last.op = "put" /\ last.exc = "") =>
        \A c \in {cache, PyNone} :
            LET g == GetPromptCall(c, file, last.name) IN
            /\ g.exc = ""
            /\ g.ret = PyDict(<<PyStr(last.args[1]), PyStr(last.args[2])>>)

\* A put of strings that YAML would not read back as strings when written
\* plain, over an entry that held another pair, has completed.
C5_Witness ==
    /\ last.op = "put" /\ last.exc = ""
    /\ last.args = <<"123", "null">>
    /\ last.preFile.kind = "doc"
    /\ \E i \in 1..Len(last.preFile.entries) :
          /\ last.preFile.entries[i].key.text = last.name
          /\ last.preFile.entries[i].system.text = "You are an editor"

C7_FailedWriteLeavesFile ==
    (last.op \in {"put", "delete"} /\ last.exc = "OSError")
        => /\ cache = PyNone
           /\ file = last.preFile

\* Reads of a loader whose cache is set are answered from the cache alone.
ReadsServedFromCache ==
    (last.op \in {"load", "get", "list"} /\ last.preCache # PyNone)
        => /\ ~last.read
           /\ cache = last.preCache
           /\ last.op = "load" => last.ret = last.preCache
           /\ last.op = "get" =>
                 last.ret = GetPromptCall(last.preCache, MissingFile, last.name).ret
           /\ last.op = "list" =>
                 last.ret = ListFormatsCall(last.preCache, MissingFile).ret

\* C8 (as claimed): once a load has cached the mapping, load/get/list are
\* served from the cache without reading the file; after any put or delete
\* the cache is invalidated and the next read reads the file again.
C8_AnyPutOrDeleteInvalidates ==
    /\ (last.op \in {"load", "get", "list"} /\ last.preFile.kind = "doc")
          => cache = YamlLoad(file)
    /\ ReadsServedFromCache
    /\ last.op \in {"put", "delete"}
          => /\ cache = PyNone
             /\ LoadCall(cache, file).read

\* C8 (amended): once a load has returned and cached the mapping, load/get/
\* list are served from the cache without reading the file; after any put,
\* and after any delete that found its name, the cache is invalidated and the
\* next read reads the file again; a delete that fails with KeyError (not
\* found) leaves the cache as the lookup's load left it.
C8_CacheUntilWrite ==
    /\ (last.op \in {"load", "get", "list"} /\ last.preFile.kind = "doc")
          => cache = YamlLoad(file)
    /\ ReadsServedFromCache
    /\ (last.op = "put" \/ (last.op = "delete" /\ last.exc # "KeyError"))
          => /\ cache = PyNone
             /\ LoadCall(cache, file).read
    /\ (last.op = "delete" /\ last.exc = "KeyError")
          => /\ cache = YamlLoad(file)
             /\ ~LoadCall(cache, file).read

\* A get was answered from the cache, without reading the file.
C8_Witness ==
    /\ last.op = "get" /\ last.exc = ""
    /\ ~last.read
    /\ last.preCache # PyNone

(***************************************************************************)
(* Post-processing on its own: a raw backend text is handed to the         *)
(* post_process of one generator class.                                    *)
(***************************************************************************)
\* Raw texts are built from at most MaxBlocks blocks, a block being a run of
\* letters and what follows it.
MaxBlocks == 2

BlockLengths == {0, 1, 150, 300}

BlockEnds == {<<".", " ">>, <<"!", " ">>, <<"?", "\n", "\n", "\n">>, <<" ">>, <<".">>}

Blocks == {Repeat("a", n) \o e : n \in BlockLengths, e \in BlockEnds}

RECURSIVE RawTexts(_)
RawTexts(n) ==
    IF n = 0 THEN {<<>>}
    ELSE LET shorter == RawTexts(n - 1)
         IN shorter \cup {t \o b : t \in shorter, b \in Blocks}

StoreIdle ==
    /\ file = InitialDoc
    /\ cache = PyNone
    /\ last = NoCall

PostInit ==
    /\ raw \in RawTexts(MaxBlocks)
    /\ out = <<>>
    /\ ppc = "start"
    /\ StoreIdle
    /\ BatchIdle
    /\ ConcIdle
    /\ FreshIdle

\* generator.post_process(raw) of the generator registered for `name`
\* (BaseGenerator's for a name that has no class of its own).
PostProcess(name) ==
    /\ ppc = "start"
    /\ out' = PostProcessOf(name, raw)
    /\ ppc' = name
    /\ UNCHANGED raw

PostNext ==
    \E name \in BuiltinNames \cup CustomNames :
        PostProcess(name) /\ UNCHANGED <<storeVars, batchVars, concVars, freshVars>>

SpecPost == PostInit /\ [][PostNext]_vars

(***************************************************************************)
(* Post-processing claims, checked under SpecPost.                         *)
(***************************************************************************)
\* p is made of whole sentences of t: it is empty, or all of t, or it ends
\* with the terminator of one of t's sentence boundaries.
EndsAtSentence(p, t) ==
    \/ p = <<>>
    \/ p = t
    \/ Len(p) \in MatchStarts(t)

\* C10 (as claimed): for every raw text of more than 300 characters the
\* telegram post-processing returns at most 300 characters that are a prefix
\* of the newline-collapsed, trimmed input and consist of whole sentences of it.
C10_TelegramWholeSentencePrefix ==
    (ppc = "telegram" /\ Len(raw) > TelegramLimit) =>
        LET c == Strip(CollapseNewlines(raw)) IN
        /\ Len(out) <= TelegramLimit
        /\ IsPrefix(out, c)
        /\ EndsAtSentence(out, c)

\* A sentence boundary of t whose terminator lies within the first
\* TelegramLimit characters.
BoundaryWithinLimit(t) == \E m \in MatchStarts(t) : m <= TelegramLimit

\* C11 (as claimed): when the backend's trimmed text is longer than 300
\* characters and has no sentence boundary within its first 300 characters,
\* the telegram output is exactly the first 300 characters of that text.
C11_HardTruncationFallback ==
    (/\ ppc = "telegram"
     /\ raw = Strip(raw)
     /\ Len(raw) > TelegramLimit
     /\ ~BoundaryWithinLimit(raw)) =>
        out = SubSeq(raw, 1, TelegramLimit)

\* C12: for every raw text whose trimmed, newline-collapsed form has at most
\* 300 characters, the telegram post-processing returns exactly that form.
C12_ShortTextPassesThrough ==
    (ppc = "telegram" /\ Len(Strip(CollapseNewlines(raw))) <= TelegramLimit) =>
        out = Strip(CollapseNewlines(raw))

\* A raw text with a sentence boundary and a run of newlines to collapse,
\* whose trimmed, collapsed form fits the limit and is returned as that form.
C12_Witness ==
    /\ ppc = "telegram"
    /\ Len(Strip(CollapseNewlines(raw))) <= TelegramLimit
    /\ MatchStarts(Strip(CollapseNewlines(raw))) # {}
    /\ CollapseNewlines(raw) # raw
    /\ out = Strip(CollapseNewlines(raw))

(***************************************************************************)
(* One call of the pipeline on its own:                                    *)
(* get_generator(name).generate(input_text, **kwargs).                     *)
(***************************************************************************)
PipelineNames == {"telegram", "email"} \cup CustomNames

KwargNames == {"audience", "tone"}

PipelineFiles == BatchFiles \cup {MissingFile}

PipelineSettings ==
    {Settings("openai", "sk-key", ""), Settings("openai", "", "or-key"),
     Settings("OpenAI", "sk-key", ""), Settings("openrouter", "", "or-key"),
     Settings("openrouter", "sk-key", ""), Settings("ollama", "", ""),
     Settings("anthropic", "sk-key", "or-key")}

PipelineInit ==
    /\ entry = "direct"
    /\ formats \in {<<name>> : name \in PipelineNames}
    /\ kwargs \in SUBSET KwargNames
    /\ file \in PipelineFiles
    /\ settings \in PipelineSettings
    /\ idx = 0
    /\ results = <<>>
    /\ errors = <<>>
    /\ outcomes = <<>>
    /\ pc = "start"
    /\ status = 0
    /\ saved = <<>>
    /\ options = [pretty |-> FALSE, output_file |-> FALSE]
    /\ response = <<>>
    /\ stdout = <<>>
    /\ replied = BackendFails
    /\ cache = PyNone
    /\ last = NoCall
    /\ PostIdle
    /\ ConcIdle
    /\ FreshIdle

\* The one call; an exception leaves it to the caller.
GenerateOnce ==
    /\ pc = "start"
    /\ \E r \in BackendResponses :
         LET o == GenerateCall(formats[1], file, settings, r, kwargs)
         IN /\ o.called \/ r = BackendFails
            /\ replied' = IF o.called THEN r ELSE replied
            /\ outcomes' = <<o>>
    /\ idx' = 1
    /\ pc' = "done"
    /\ UNCHANGED <<entry, formats, results, errors, settings, status, saved, kwargs,
                   options, response, stdout>>

PipelineNext == GenerateOnce /\ UNCHANGED <<storeVars, postVars, concVars, freshVars>>

SpecPipeline == PipelineInit /\ [][PipelineNext]_vars

(***************************************************************************)
(* Pipeline claims.                                                        *)
(***************************************************************************)
SupportedKinds == {"openai", "openrouter", "ollama"}

\* The settings name no supported kind, or leave the key of the selected
\* kind empty.
Misconfigured(st) ==
    \/ Lower(st.ai_provider) \notin SupportedKinds
    \/ Lower(st.ai_provider) = "openai" /\ st.openai_api_key = ""
    \/ Lower(st.ai_provider) = "openrouter" /\ st.openrouter_api_key = ""

\* C13: under settings with an unsupported provider kind, or with an empty
\* key for the selected kind, get_ai_provider fails with the configuration
\* error (ValueError), and a pipeline that gets as far as building its
\* provider stops there without a single backend call.
C13_MisconfigurationFailsBeforeBackend ==
    Misconfigured(settings) =>
        /\ GetAiProvider(settings).exc = "ValueError"
        /\ (pc = "done" /\ GetGenerator(formats[1]).exc = "") =>
               /\ outcomes[1].stage = "provider"
               /\ outcomes[1].exc = "ValueError"
               /\ outcomes[1].calls = 0

\* openrouter is selected and only the key of another kind is set: the
\* pipeline has stopped at the provider with no backend call.
C13_Witness ==
    /\ pc = "done"
    /\ settings = Settings("openrouter", "sk-key", "")
    /\ formats = <<"telegram">>
    /\ outcomes[1].stage = "provider"
    /\ outcomes[1].exc = "ValueError"
    /\ outcomes[1].calls = 0

RECURSIVE SumCalls(_)
SumCalls(os) == IF os = <<>> THEN 0 ELSE os[1].calls + SumCalls(Tail(os))

\* The steps before the backend call all succeed for this name.
ReachesBackend(name, f, st, kw) ==
    /\ GetGenerator(name).exc = ""
    /\ GetAiProvider(st).exc = ""
    /\ GetPromptCall(PyNone, f, name).exc = ""
    /\ FormatUserPrompt(GetPromptCall(PyNone, f, name).ret.items[2], kw) = ""

\* C14: every pipeline invocation of a batch makes exactly one backend call
\* when its template fetch and substitution (and the steps before them)
\* succeed, whether that call fails or not, and none when an earlier step
\* fails; so a batch over n occurrences makes at most n backend calls.
C14_AtMostOneBackendCall ==
    /\ \A i \in 1..Len(outcomes) :
          outcomes[i].calls =
              IF ReachesBackend(outcomes[i].name, file, settings, {}) THEN 1 ELSE 0
    /\ SumCalls(outcomes) <= Len(outcomes)
    /\ Len(outcomes) <= Len(formats)

\* A finished batch of three: a failed backend call, a failed substitution
\* and a success; two backend calls in all.
C14_Witness ==
    /\ LoopFinished
    /\ Len(outcomes) = 3
    /\ outcomes[1].stage = "backend" /\ outcomes[1].calls = 1
    /\ outcomes[2].stage = "substitution" /\ outcomes[2].calls = 0
    /\ outcomes[3].exc = "" /\ outcomes[3].calls = 1
    /\ SumCalls(outcomes) = 2

\* The user template the call fetched, when it got that far.
FetchedUser == GetPromptCall(PyNone, file, formats[1]).ret.items[2]

FetchesTemplate ==
    /\ GetGenerator(formats[1]).exc = ""
    /\ GetAiProvider(settings).exc = ""
    /\ GetPromptCall(PyNone, file, formats[1]).exc = ""
    /\ FetchedUser.tag = "str"

\* C15: when the user template holds a placeholder that is neither
\* input_text nor a key of the extra substitutions, generate fails with the
\* template error (KeyError) and makes no backend call; when every
\* placeholder is supplied, extra keys the template does not use are ignored
\* and the backend is called.
C15_UnknownPlaceholderFails ==
    (pc = "done" /\ FetchesTemplate) =>
        IF Placeholders(FetchedUser.v) \subseteq ({"input_text"} \cup kwargs)
        THEN outcomes[1].stage \in {"backend", ""} /\ outcomes[1].calls = 1
        ELSE /\ outcomes[1].stage = "substitution"
             /\ outcomes[1].exc = "KeyError"
             /\ outcomes[1].calls = 0

\* The template asks for audience, the call supplies only tone: KeyError and
\* no backend call.
C15_Witness ==
    /\ pc = "done"
    /\ FetchesTemplate
    /\ Placeholders(FetchedUser.v) = {"input_text", "audience"}
    /\ kwargs = {"tone"}
    /\ outcomes[1].exc = "KeyError"
    /\ outcomes[1].calls = 0

\* C20 (as claimed): a pipeline that asked the backend either got the body's
\* content, trimmed, or failed with the backend's error; a body without the
\* content field makes the call fail.
C20_MissingContentFieldFails ==
    (pc = "done" /\ outcomes[1].calls > 0) =>
        /\ (replied.ok /\ replied.field) =>
               /\ outcomes[1].exc = ""
               /\ outcomes[1].content =
                      Text(PostProcessOf(formats[1], Strip(replied.text)))
        /\ ~(replied.ok /\ replied.field) => outcomes[1].exc # ""

(***************************************************************************)
(* Claims on what the batch handlers answer, checked under SpecBatch.      *)
(***************************************************************************)
\* The occurrences that failed, and the names whose final result is None.
SomeOccurrenceFailed == \E i \in 1..Len(outcomes) : outcomes[i].exc # ""

FailedNames == {n \in Requested : DictHas(results, n) /\ DictGet(results, n) = TextNone}

\* POST /generate answers 500 exactly when the list is empty or every
\* requested name ended without content, and 200 otherwise.
ServerErrorIffNothingGenerated ==
    (entry = "http" /\ pc = "done") =>
        /\ status \in {200, 500}
        /\ status = 500 <=> (formats = <<>> \/ FailedNames = Requested)

\* C16 (as claimed): POST /generate answers with a server error exactly when
\* every requested format failed or the list is empty; otherwise it answers
\* 200 with a body whose results hold None for the failed formats and which
\* carries their per-format errors.
C16_PartialFailureReturnsErrors ==
    (entry = "http" /\ pc = "done") =>
        /\ ServerErrorIffNothingGenerated
        /\ status = 200 =>
              /\ DictGet(response, "results") = results
              /\ \A n \in FailedNames : DictHas(errors, n)
              /\ errors # <<>> =>
                    /\ DictHas(response, "errors")
                    /\ DictGet(response, "errors") = errors

\* The successful content has left the CLI: the bundle was saved, or printed
\* as JSON, or every success was printed as a pretty block.
BundleSaved == saved = <<OutputData>>

JsonEchoed == \E i \in 1..Len(stdout) : stdout[i] = Echoed("json", "", TextNone, OutputData)

SuccessesEchoed ==
    \A i \in 1..Len(outcomes) :
        outcomes[i].exc = "" =>
            \E j \in 1..Len(stdout) :
                stdout[j] = Echoed("content", outcomes[i].name, outcomes[i].content, NoData)

\* The CLI stopped on an unregistered name: exit code 1 and no pipeline run.
RejectedBeforeLoop ==
    (entry = "cli" /\ pc = "done" /\ \E i \in 1..Len(formats) : formats[i] \notin BuiltinNames)
        => (status = 1 /\ outcomes = <<>> /\ saved = <<>> /\ stdout = <<>>)

\* The CLI exits with 1 exactly when some occurrence failed in the loop.
ExitsNonZeroOnFailure ==
    (entry = "cli" /\ LoopFinished) => (status = 1 <=> SomeOccurrenceFailed)

ApiNames == {"telegram", "email"} \cup CustomNames

\* POST /api/formats: save_prompt on a new loader; any exception is a 500.
CreateOrUpdateFormat(name, sys, usr, io) ==
    LET r == SavePromptCall(PyNone, file, name, sys, usr, io) IN
    /\ ReachesWrite(r.exc, io)
    /\ cache' = r.cache
    /\ file' \in r.files
    /\ status' = IF r.exc = "" THEN 200 ELSE 500
    /\ last' = Call("POST", name, <<sys, usr>>, r.exc, PyNone, r.read, file, cache)

\* DELETE /api/formats/{format_name}: a registered name is refused with 400
\* before a loader is built; else delete_prompt on a new loader, where
\* KeyError is a 404 and any other exception a 500.
DeleteFormat(name, io) ==
    IF name \in BuiltinNames
    THEN /\ io = "ok"
         /\ status' = 400
         /\ last' = Call("DELETE", name, <<>>, "HTTPException", PyNone, FALSE, file, cache)
         /\ UNCHANGED <<file, cache>>
    ELSE LET r == DeletePromptCall(PyNone, file, name, io) IN
         /\ ReachesWrite(r.exc, io)
         /\ cache' = r.cache
         /\ file' \in r.files
         /\ status' = CASE r.exc = "" -> 200
                         [] r.exc = "KeyError" -> 404
                         [] OTHER -> 500
         /\ last' = Call("DELETE", name, <<>>, r.exc, PyNone, r.read, file, cache)

\* GET /api/formats/{format_name}: get_prompt on a new loader; KeyError is a
\* 404, any other exception leaves the handler (a 500).
GetFormat(name) ==
    LET r == GetPromptCall(PyNone, file, name) IN
    /\ cache' = r.cache
    /\ status' = CASE r.exc = "" -> 200
                    [] r.exc = "KeyError" -> 404
                    [] OTHER -> 500
    /\ last' = Call("GET", name, <<>>, r.exc, r.ret, r.read, file, cache)
    /\ UNCHANGED file

ApiFrame ==
    UNCHANGED <<entry, formats, idx, results, errors, outcomes, pc, settings, saved,
                kwargs, options, response, stdout, replied, postVars, concVars,
                freshVars>>

ApiInit ==
    /\ file \in {InitialDoc, DocWithCustom}
    /\ cache = PyNone
    /\ last = NoCall
    /\ BatchIdle
    /\ PostIdle
    /\ ConcIdle
    /\ FreshIdle

ApiNext ==
    \/ \E name \in ApiNames, t \in Templates, io \in IoOutcomes :
         CreateOrUpdateFormat(name, t[1], t[2], io) /\ ApiFrame
    \/ \E name \in ApiNames, io \in IoOutcomes :
         DeleteFormat(name, io) /\ ApiFrame
    \/ \E name \in ApiNames : GetFormat(name) /\ ApiFrame

SpecApi == ApiInit /\ [][ApiNext]_vars

\* The built-in names the initial prompts.yaml has templates for.
InitialBuiltins == EntryNames(InitialDoc.entries) \cap BuiltinNames

\* A DELETE of a built-in name answers 400 and leaves cache and file alone.
BuiltinDeleteRejected ==
    (last.op = "DELETE" /\ last.name \in BuiltinNames) =>
        /\ status = 400
        /\ file = last.preFile
        /\ cache = last.preCache

\* C18 (as claimed): a DELETE of a built-in name is refused with a client
\* error and changes neither cache nor file; and after any sequence of
\* create/update/delete requests, run one at a time, every built-in name
\* that had a template at the start still has one.
C18_BuiltinTemplatesSurvive ==
    /\ BuiltinDeleteRejected
    /\ \A n \in InitialBuiltins : file.kind = "doc" /\ n \in EntryNames(file.entries)

(***************************************************************************)
(* Two callers of save_prompt at once, each with its own PromptLoader:     *)
(* the steps of save_prompt (load, set the entry, rewrite the file) of one *)
(* caller may fall between the steps of the other.                         *)
(***************************************************************************)
Callers == {1, 2}

\* Names no template exists for at the start.
NewNames == CustomNames \cup {"digest"}

Writer(wpc, name, template, prompts, exc) ==
    [wpc |-> wpc, name |-> name, template |-> template, prompts |-> prompts, exc |-> exc]

\* A rewrite that first merges what the file holds now under the caller's
\* own entries.
PersistedPromptsMerged(prompts, f) ==
    IF f.kind # "doc" THEN prompts
    ELSE LET now == YamlLoad(f).items
             Merge[i \in 0..Len(prompts.items)] ==
                 IF i = 0 THEN now
                 ELSE DictSet(Merge[i - 1], prompts.items[i].key, prompts.items[i].val)
         IN PyDict(Merge[Len(prompts.items)])

\* What yaml.dump is given: the caller's own dict, whatever the file holds.
PersistedPrompts(prompts, f) == prompts

ConcInit ==
    /\ file = InitialDoc
    /\ cache = PyNone
    /\ last = NoCall
    /\ BatchIdle
    /\ PostIdle
    /\ writers \in [Callers -> {Writer("start", n, t, PyNone, "") :
                                    n \in NewNames, t \in Templates}]
    /\ persisted = <<>>
    /\ FreshIdle

\* prompts = self.load() of a new loader.
WriterLoad(w) ==
    LET r == LoadCall(PyNone, file)
        exc == CASE r.exc # "" -> r.exc
                 [] r.ret = PyNone -> "TypeError"
                 [] OTHER -> ""
    IN /\ writers[w].wpc = "start"
       /\ writers' = [writers EXCEPT ![w].wpc = IF exc = "" THEN "loaded" ELSE "done",
                                      ![w].prompts = r.ret,
                                      ![w].exc = exc]
       /\ UNCHANGED <<file, persisted>>

\* prompts[format_name] = {...}; self._prompts = None
WriterSet(w) ==
    /\ writers[w].wpc = "loaded"
    /\ writers' = [writers EXCEPT
                      ![w].wpc = "set",
                      ![w].prompts =
                          PyDict(DictSet(writers[w].prompts.items, PyStr(writers[w].name),
                                   [system |-> PyStr(writers[w].template[1]),
                                    user |-> PyStr(writers[w].template[2])]))]
    /\ UNCHANGED <<file, persisted>>

\* with open(self.config_path, "w") as f: yaml.dump(prompts, f, ...)
WriterPersist(w, io) ==
    /\ writers[w].wpc = "set"
    /\ file' \in FilesAfterWrite(file, PersistedPrompts(writers[w].prompts, file), io)
    /\ writers' = [writers EXCEPT ![w].wpc = "done",
                                   ![w].exc = IF io = "ok" THEN "" ELSE "OSError"]
    /\ persisted' = IF io = "ok" THEN Append(persisted, w) ELSE persisted

ConcFrame == UNCHANGED <<cache, last, batchVars, postVars, freshVars>>

ConcNext ==
    \/ \E w \in Callers : WriterLoad(w) /\ ConcFrame
    \/ \E w \in Callers : WriterSet(w) /\ ConcFrame
    \/ \E w \in Callers, io \in IoOutcomes : WriterPersist(w, io) /\ ConcFrame

SpecConcurrent == ConcInit /\ [][ConcNext]_vars

\* Both calls have returned without an exception, for two different names.
BothReturned ==
    /\ Len(persisted) = 2
    /\ \A w \in Callers : writers[w].wpc = "done" /\ writers[w].exc = ""
    /\ writers[1].name # writers[2].name

\* C19: save_prompt calls do not exclude each other.  When two calls for
\* different new names have both returned successfully, the file holds
\* exactly what the last writer dumped, its own snapshot plus its own entry:
\* the first writer's entry is there only if the last writer loaded after
\* the first had written, and is lost otherwise.
C19_LastWriterOverwrites ==
    BothReturned =>
        LET lastW == persisted[2]
            firstW == persisted[1]
        IN /\ file = YamlDump(writers[lastW].prompts)
           /\ writers[lastW].name \in EntryNames(file.entries)
           /\ writers[firstW].name \in EntryNames(file.entries)
                 <=> DictHas(writers[lastW].prompts.items, PyStr(writers[firstW].name))

\* The lost update: both calls returned successfully and the file holds the
\* last writer's name but not the first writer's.
C19_Witness ==
    /\ BothReturned
    /\ writers[persisted[2]].name \in EntryNames(file.entries)
    /\ writers[persisted[1]].name \notin EntryNames(file.entries)

(***************************************************************************)
(* Template writes through POST /api/formats and DELETE /api/formats next  *)
(* to pipeline invocations, one request at a time.                         *)
(***************************************************************************)
\* The names invoked, and the names written or deleted.
FreshNames == {"telegram", "email"}

WrittenNames == {"telegram"} \cup CustomNames

\* A registry that hands out the generator object it built before.
GetGeneratorInstanceReused(prev, name) ==
    IF prev.format_name = name THEN prev ELSE NewGenerator(name)

\* `return GENERATORS[format_name]()`: every call builds a new object.
GetGeneratorInstance(prev, name) == NewGenerator(name)

NoPair == <<>>

\* The history of completed puts after one store request: a put that
\* completed records its pair, a delete that completed forgets the name, a
\* rewrite that failed part-way leaves nothing to rely on.
StoredAfter(op, name, pair, exc, f) ==
    CASE exc = "" /\ op = "put" -> [stored EXCEPT ![name] = pair]
      [] exc = "" /\ op = "delete" -> [stored EXCEPT ![name] = NoPair]
      [] exc = "OSError" /\ f # file -> [n \in DOMAIN stored |-> NoPair]
      [] OTHER -> stored

FreshInit ==
    /\ file = InitialDoc
    /\ cache = PyNone
    /\ last = NoCall
    /\ BatchIdle
    /\ PostIdle
    /\ ConcIdle
    /\ generator = NoGenerator
    /\ stored = [n \in FreshNames \cup WrittenNames |-> NoPair]
    /\ expected = NoPair

FreshFrame ==
    UNCHANGED <<entry, formats, idx, results, errors, pc, settings, saved, kwargs,
                options, response, stdout, postVars, concVars>>

\* POST /api/formats, as CreateOrUpdateFormat, without the record of the call.
PutFormat(name, sys, usr, io) ==
    LET r == SavePromptCall(PyNone, file, name, sys, usr, io) IN
    /\ ReachesWrite(r.exc, io)
    /\ cache' = r.cache
    /\ file' \in r.files
    /\ status' = IF r.exc = "" THEN 200 ELSE 500
    /\ stored' = StoredAfter("put", name, <<sys, usr>>, r.exc, file')
    /\ UNCHANGED <<last, outcomes, replied, generator, expected>>

\* DELETE /api/formats/{format_name}, as DeleteFormat, without the record of
\* the call.
RemoveFormat(name, io) ==
    IF name \in BuiltinNames
    THEN /\ io = "ok"
         /\ status' = 400
         /\ UNCHANGED <<storeVars, outcomes, replied, freshVars>>
    ELSE LET r == DeletePromptCall(PyNone, file, name, io) IN
         /\ ReachesWrite(r.exc, io)
         /\ cache' = r.cache
         /\ file' \in r.files
         /\ status' = CASE r.exc = "" -> 200
                         [] r.exc = "KeyError" -> 404
                         [] OTHER -> 500
         /\ stored' = StoredAfter("delete", name, NoPair, r.exc, file')
         /\ UNCHANGED <<last, outcomes, replied, generator, expected>>

\* One pass of the batch loop's try block for a registered name:
\* get_generator(name), then generator.generate(input_text).
Invoke(name) ==
    \E r \in BackendReplies :
        LET g == GetGeneratorInstance(generator, name)
            o == GenerateWith(g, file, settings, r, {})
        IN /\ o.called \/ r = BackendFails
           /\ outcomes' = <<o>>
           /\ replied' = IF o.called THEN r ELSE replied
           /\ generator' = IF PromptConfig(g, file).exc = ""
                            THEN GeneratorInstance(name, PromptConfig(g, file).ret)
                            ELSE g
           /\ expected' = stored[name]
           /\ UNCHANGED <<storeVars, status, stored>>

FreshNext ==
    \/ \E name \in WrittenNames, t \in Templates, io \in IoOutcomes :
         PutFormat(name, t[1], t[2], io) /\ FreshFrame
    \/ \E name \in WrittenNames, io \in IoOutcomes :
         RemoveFormat(name, io) /\ FreshFrame
    \/ \E name \in FreshNames : Invoke(name) /\ FreshFrame

SpecFresh == FreshInit /\ [][FreshNext]_vars

\* The pair as the pipeline holds it: two Python strings.
AsConfig(pair) == PyDict(<<PyStr(pair[1]), PyStr(pair[2])>>)

====
